---- MODULE Spec2Model ----
(***************************************************************************)
(* A model of the shortwave flux solver Rte_sw::rte_sw and its helper      *)
(* expand_and_transpose (src/src/Rte_sw.cpp), of the interface of the      *)
(* neural-network gas optics engine Gas_optics_nn                          *)
(* (src/include/Gas_optics_nn.h) and of the driver                         *)
(* (src/src_test/test_rte_rrtmgp.cpp).                                     *)
(*                                                                         *)
(* Floating-point values (TF) are modelled by integers; arrays are         *)
(* functions indexed from 1, as Array<TF,N>::operator() is.                *)
(***************************************************************************)
EXTENDS Integers, Sequences, FiniteSets, TLC

\* ------------------------------------------------------------------ bounds
NCol == 2
NLay == 1
NGpt == 3
NBand == 2
MaxSeed == 1

VARIABLES
    pc,               \* position inside rte_sw
    optical_props,    \* the optical-property container handed to rte_sw
    top_at_1, mu0, inc_flux, sfc_alb_dir, sfc_alb_dif,   \* rte_sw arguments
    byband,           \* dynamic type of *fluxes: Fluxes_byband or Fluxes_broadband
    gpt_flux_up, gpt_flux_dn, gpt_flux_dir,              \* rte_sw locals
    sfc_alb_dir_gpt, sfc_alb_dif_gpt,                    \* rte_sw locals
    loop,             \* expand_and_transpose's loop indices
    fluxes,           \* the caller's flux fields
    trace,            \* the calls rte_sw has made so far, in order
    engine,           \* the Gas_optics_nn object's data members
    gas,              \* the last gas_optics call: its arguments and what it wrote
    log,              \* the completed calls: kind, arguments, outputs
    drv               \* the driver process (test_rte_rrtmgp.cpp)

args == <<optical_props, top_at_1, mu0, inc_flux, sfc_alb_dir, sfc_alb_dif, byband>>
locals == <<gpt_flux_up, gpt_flux_dn, gpt_flux_dir, sfc_alb_dir_gpt, sfc_alb_dif_gpt>>
rte_vars == <<pc, args, locals, loop, fluxes, trace>>
vars == <<rte_vars, engine, gas, log, drv>>

Max(a, b) == IF a >= b THEN a ELSE b

\* ------------------------------------------------------------- arrays
\* Array<TF,N>'s constructor from dimensions: every element is zero.
Zeros1(n1) == [i \in 1..n1 |-> 0]
Zeros2(n1, n2) == [i \in 1..n1 |-> [j \in 1..n2 |-> 0]]
Zeros3(n1, n2, n3) == [i \in 1..n1 |-> [j \in 1..n2 |-> [k \in 1..n3 |-> 0]]]

\* Array::dim(i): the extent of dimension i of a rank-2 array.
Dim1(arr) == Cardinality(DOMAIN arr)
Dim2(arr) == IF DOMAIN arr = {} THEN 0 ELSE Cardinality(DOMAIN arr[1])

\* Sum of f[lo..hi], added in ascending and in descending order of the index.
RECURSIVE SumAsc(_, _, _)
SumAsc(f, lo, hi) == IF lo > hi THEN 0 ELSE SumAsc(f, lo, hi - 1) + f[hi]

RECURSIVE SumDesc(_, _, _)
SumDesc(f, lo, hi) == IF lo > hi THEN 0 ELSE SumDesc(f, lo + 1, hi) + f[lo]

\* ------------------------------------------------------------- inputs
\* band_lims_gpoint of a container: nband contiguous ranges partitioning 1..ngpt.
BandLimsSet(nband, ngpt) ==
    { lims \in [1..nband -> (1..ngpt) \X (1..ngpt)] :
        /\ lims[1][1] = 1
        /\ lims[nband][2] = ngpt
        /\ \A b \in 1..nband : lims[b][1] <= lims[b][2]
        /\ \A b \in 1..(nband - 1) : lims[b + 1][1] = lims[b][2] + 1 }

\* Optical-property containers: tau and ssa vary with the spectral point.
OpticalPropsSet ==
    { [ncol |-> NCol, nlay |-> NLay, ngpt |-> NGpt, nband |-> NBand,
       band_lims_gpoint |-> lims,
       tau |-> [c \in 1..NCol |-> [l \in 1..NLay |-> [g \in 1..NGpt |-> t + (g % 2)]]],
       ssa |-> [c \in 1..NCol |-> [l \in 1..NLay |-> [g \in 1..NGpt |-> s]]],
       g   |-> Zeros3(NCol, NLay, NGpt)] :
      lims \in BandLimsSet(NBand, NGpt), t \in 0..MaxSeed, s \in 0..1 }

\* Per-band surface albedo {nband, ncol}: every entry differs from its
\* neighbours, so a transposed or shifted index shows.
AlbDirSet(nband, ncol) ==
    { [b \in 1..nband |-> [c \in 1..ncol |-> s + b + nband * (c - 1)]] : s \in 0..MaxSeed }
AlbDifSet(nband, ncol) ==
    { [b \in 1..nband |-> [c \in 1..ncol |-> s + c + ncol * (b - 1) + 1]] : s \in 0..MaxSeed }
Mu0Set(ncol) == { [c \in 1..ncol |-> s + c - 1] : s \in 0..MaxSeed }
IncFluxSet(ncol, ngpt) ==
    { [c \in 1..ncol |-> [g \in 1..ngpt |-> s + g + ngpt * (c - 1)]] : s \in 0..MaxSeed }

\* The caller's flux fields before a solve: allocated, zero, not yet written.
NewFluxes(ncol, nlev, nband) ==
    [written |-> FALSE,
     flux_up |-> Zeros2(ncol, nlev), flux_dn |-> Zeros2(ncol, nlev),
     flux_dn_dir |-> Zeros2(ncol, nlev), flux_net |-> Zeros2(ncol, nlev),
     bnd_flux_up |-> Zeros3(ncol, nlev, nband), bnd_flux_dn |-> Zeros3(ncol, nlev, nband),
     bnd_flux_dn_dir |-> Zeros3(ncol, nlev, nband), bnd_flux_net |-> Zeros3(ncol, nlev, nband)]

\* ------------------------------------------------------------- kernels
\* Index of the top level: 1 when top_at_1 is set, nlay+1 otherwise.
TopLev(nlay, top) == IF top = 1 THEN 1 ELSE nlay + 1
SfcLev(nlay, top) == IF top = 1 THEN nlay + 1 ELSE 1

\* rrtmgp_kernels::apply_BC_factor: flux(c, top, g) = inc_flux(c, g) * factor(c).
apply_BC_factor(ncol, nlay, ngpt, top, inc, factor, flux) ==
    [c \in 1..ncol |-> [l \in 1..(nlay + 1) |-> [g \in 1..ngpt |->
        IF l = TopLev(nlay, top) THEN inc[c][g] * factor[c] ELSE flux[c][l][g]]]]

\* rrtmgp_kernels::apply_BC_0: flux(c, top, g) = 0.
apply_BC_0(ncol, nlay, ngpt, top, flux) ==
    [c \in 1..ncol |-> [l \in 1..(nlay + 1) |-> [g \in 1..ngpt |->
        IF l = TopLev(nlay, top) THEN 0 ELSE flux[c][l][g]]]]

\* The two-stream kernel is opaque: a deterministic function of its inputs that
\* overwrites all three flux arrays.  The stand-in attenuates the direct beam
\* by tau, turns the attenuated part into diffuse flux where ssa is set, and
\* reflects at the surface with the expanded albedos.
LayersAbove(nlay, top, l) == IF top = 1 THEN 1..(l - 1) ELSE l..nlay
TauAbove(ops, top, c, l, g) ==
    LET ls == LayersAbove(ops.nlay, top, l)
    IN  SumAsc([k \in 1..ops.nlay |-> IF k \in ls THEN ops.tau[c][k][g] ELSE 0], 1, ops.nlay)
KernelDir(ops, top, dir, c, l, g) ==
    Max(0, dir[c][TopLev(ops.nlay, top)][g] - TauAbove(ops, top, c, l, g))
KernelDif(ops, top, dn, dir, c, l, g) ==
    dn[c][TopLev(ops.nlay, top)][g]
      + ops.ssa[c][1][g] * (dir[c][TopLev(ops.nlay, top)][g] - KernelDir(ops, top, dir, c, l, g))
KernelUp(ops, top, adir, adif, dn, dir, c, l, g) ==
    adir[c][g] * KernelDir(ops, top, dir, c, SfcLev(ops.nlay, top), g)
      + adif[c][g] * KernelDif(ops, top, dn, dir, c, SfcLev(ops.nlay, top), g)

sw_solver_2stream(ops, top, adir, adif, dn, dir) ==
    [up  |-> [c \in 1..ops.ncol |-> [l \in 1..(ops.nlay + 1) |-> [g \in 1..ops.ngpt |->
                KernelUp(ops, top, adir, adif, dn, dir, c, l, g)]]],
     dn  |-> [c \in 1..ops.ncol |-> [l \in 1..(ops.nlay + 1) |-> [g \in 1..ops.ngpt |->
                KernelDif(ops, top, dn, dir, c, l, g) + KernelDir(ops, top, dir, c, l, g)]]],
     dir |-> [c \in 1..ops.ncol |-> [l \in 1..(ops.nlay + 1) |-> [g \in 1..ops.ngpt |->
                KernelDir(ops, top, dir, c, l, g)]]]]

\* ------------------------------------------------------------- reduce
\* Fluxes_broadband::reduce / Fluxes_byband::reduce: sums over the spectral
\* points (of each band), and the net flux.
BandOf(lims, nband, g) == CHOOSE b \in 1..nband : lims[b][1] <= g /\ g <= lims[b][2]
BandFirst(lims, b) == lims[b][1]
BandLast(lims, b) == lims[b][2]
SumBroadband(f, ngpt) == SumAsc(f, 1, ngpt)
SumBybandShort(f, lims, b) == SumAsc(f, BandFirst(lims, b), BandLast(lims, b) - 1)
SumByband(f, lims, b) == SumAsc(f, BandFirst(lims, b), BandLast(lims, b))

Reduce(up, dn, dir, ops, bb, old) ==
    LET nlev == ops.nlay + 1
        lims == ops.band_lims_gpoint
        bb2(f) == [c \in 1..ops.ncol |-> [l \in 1..nlev |-> SumBroadband(f[c][l], ops.ngpt)]]
        by3(f) == [c \in 1..ops.ncol |-> [l \in 1..nlev |->
                      [b \in 1..ops.nband |-> SumByband(f[c][l], lims, b)]]]
        u2 == bb2(up)
        d2 == bb2(dn)
        u3 == by3(up)
        d3 == by3(dn)
    IN  [written |-> TRUE,
         flux_up |-> u2, flux_dn |-> d2, flux_dn_dir |-> bb2(dir),
         flux_net |-> [c \in 1..ops.ncol |-> [l \in 1..nlev |-> u2[c][l] - d2[c][l]]],
         bnd_flux_up |-> IF bb THEN u3 ELSE old.bnd_flux_up,
         bnd_flux_dn |-> IF bb THEN d3 ELSE old.bnd_flux_dn,
         bnd_flux_dn_dir |-> IF bb THEN by3(dir) ELSE old.bnd_flux_dn_dir,
         bnd_flux_net |-> IF bb
                          THEN [c \in 1..ops.ncol |-> [l \in 1..nlev |->
                                  [b \in 1..ops.nband |-> u3[c][l][b] - d3[c][l][b]]]]
                          ELSE old.bnd_flux_net]

\* ------------------------------------------------- expand_and_transpose
\* The triple loop of expand_and_transpose: band, column, spectral point.
ExpandFirst(limits, iband) == limits[iband][1]
ExpandLastExclusive(limits, iband) == limits[iband][2] - 1
ExpandLast(limits, iband) == limits[iband][2]

\* Every iteration <<iband, icol, igpt>> of the loop, and its place in the order.
ExpandIters(limits, nband, ncol) ==
    { <<b, c, g>> : b \in 1..nband, c \in 1..ncol, g \in 1..NGpt } \cap
    { t \in (1..nband) \X (1..ncol) \X (1..NGpt) :
        ExpandFirst(limits, t[1]) <= t[3] /\ t[3] <= ExpandLast(limits, t[1]) }
IterBefore(u, t) ==
    \/ u[1] < t[1]
    \/ u[1] = t[1] /\ u[2] < t[2]
    \/ u[1] = t[1] /\ u[2] = t[2] /\ u[3] < t[3]
IterRank(iters, t) == Cardinality({ u \in iters : IterBefore(u, t) }) + 1
IterAt(iters, k) == CHOOSE t \in iters : IterRank(iters, t) = k

\* The value one iteration stores: arr_out({icol, igpt}) = arr_in({iband, icol}).
ExpandValueUntransposed(arr_in, iband, icol) == arr_in[icol][iband]
ExpandValue(arr_in, iband, icol) == arr_in[iband][icol]

\* One iteration: arr_out({icol, igpt}) = arr_in({iband, icol}).  The arguments
\* enumerated below keep every index inside its array.
ExpandWrite(arr_in, arr_out, t) ==
    [arr_out EXCEPT ![t[2]][t[3]] = ExpandValue(arr_in, t[1], t[2])]

NoLoop == [k |-> 0]

\* ------------------------------------------------------------- rte_sw
RteArgs ==
    [optical_props : OpticalPropsSet, top_at_1 : {0, 1}, mu0 : Mu0Set(NCol),
     inc_flux : IncFluxSet(NCol, NGpt),
     sfc_alb_dir : AlbDirSet(NBand, NCol), sfc_alb_dif : AlbDifSet(NBand, NCol),
     byband : BOOLEAN]

\* The caller holds the arguments a of its next rte_sw call.
CallerHolds(a) ==
    /\ optical_props = a.optical_props
    /\ top_at_1 = a.top_at_1
    /\ mu0 = a.mu0
    /\ inc_flux = a.inc_flux
    /\ sfc_alb_dir = a.sfc_alb_dir
    /\ sfc_alb_dif = a.sfc_alb_dif
    /\ byband = a.byband

\* The caller enters rte_sw.
RteSwBegin ==
    /\ pc = "idle"
    /\ pc' = "alloc"
    /\ trace' = <<>>
    /\ UNCHANGED <<args, locals, loop, fluxes, engine, gas, log, drv>>

\* Lines 67-77: the dimensions from the container, the five local arrays.
RteSwAlloc ==
    /\ pc = "alloc"
    /\ LET ncol == optical_props.ncol
           nlay == optical_props.nlay
           ngpt == optical_props.ngpt
       IN  /\ gpt_flux_up' = Zeros3(ncol, nlay + 1, ngpt)
           /\ gpt_flux_dn' = Zeros3(ncol, nlay + 1, ngpt)
           /\ gpt_flux_dir' = Zeros3(ncol, nlay + 1, ngpt)
           /\ sfc_alb_dir_gpt' = Zeros2(ncol, ngpt)
           /\ sfc_alb_dif_gpt' = Zeros2(ncol, ngpt)
    /\ pc' = "call_expand_dir"
    /\ UNCHANGED <<args, loop, fluxes, trace, engine, gas, log, drv>>

\* Line 79: expand_and_transpose(optical_props, sfc_alb_dir, sfc_alb_dir_gpt).
ExpandDirEnter ==
    /\ pc = "call_expand_dir"
    /\ pc' = "in_expand_dir"
    /\ loop' = [k |-> 1]
    /\ trace' = Append(trace, "expand_dir")
    /\ UNCHANGED <<args, locals, fluxes, engine, gas, log, drv>>

ExpandDirStep ==
    /\ pc = "in_expand_dir"
    /\ LET iters == ExpandIters(optical_props.band_lims_gpoint, optical_props.nband,
                                Dim2(sfc_alb_dir))
       IN  IF loop.k > Cardinality(iters)
           THEN /\ pc' = "call_expand_dif"
                /\ loop' = NoLoop
                /\ UNCHANGED sfc_alb_dir_gpt
           ELSE /\ pc' = pc
                /\ loop' = [k |-> loop.k + 1]
                /\ sfc_alb_dir_gpt' = ExpandWrite(sfc_alb_dir, sfc_alb_dir_gpt,
                                                   IterAt(iters, loop.k))
    /\ UNCHANGED <<args, gpt_flux_up, gpt_flux_dn, gpt_flux_dir, sfc_alb_dif_gpt,
                   fluxes, trace, engine, gas, log, drv>>

\* Line 80: expand_and_transpose(optical_props, sfc_alb_dif, sfc_alb_dif_gpt).
ExpandDifEnter ==
    /\ pc = "call_expand_dif"
    /\ pc' = "in_expand_dif"
    /\ loop' = [k |-> 1]
    /\ trace' = Append(trace, "expand_dif")
    /\ UNCHANGED <<args, locals, fluxes, engine, gas, log, drv>>

ExpandDifStep ==
    /\ pc = "in_expand_dif"
    /\ LET iters == ExpandIters(optical_props.band_lims_gpoint, optical_props.nband,
                                Dim2(sfc_alb_dif))
       IN  IF loop.k > Cardinality(iters)
           THEN /\ pc' = "bc_dir"
                /\ loop' = NoLoop
                /\ UNCHANGED sfc_alb_dif_gpt
           ELSE /\ pc' = pc
                /\ loop' = [k |-> loop.k + 1]
                /\ sfc_alb_dif_gpt' = ExpandWrite(sfc_alb_dif, sfc_alb_dif_gpt,
                                                   IterAt(iters, loop.k))
    /\ UNCHANGED <<args, gpt_flux_up, gpt_flux_dn, gpt_flux_dir, sfc_alb_dir_gpt,
                   fluxes, trace, engine, gas, log, drv>>

\* Line 83: apply_BC(ncol, nlay, ngpt, top_at_1, inc_flux, mu0, gpt_flux_dir).
ApplyBCDirToDn ==
    /\ pc = "bc_dir"
    /\ gpt_flux_dn' = apply_BC_factor(optical_props.ncol, optical_props.nlay,
                                      optical_props.ngpt, top_at_1, inc_flux, mu0, gpt_flux_dn)
    /\ pc' = "bc_dn"
    /\ trace' = Append(trace, "apply_BC_factor")
    /\ UNCHANGED <<args, gpt_flux_up, gpt_flux_dir, sfc_alb_dir_gpt, sfc_alb_dif_gpt,
                   loop, fluxes, engine, gas, log, drv>>

ApplyBCDir ==
    /\ pc = "bc_dir"
    /\ gpt_flux_dir' = apply_BC_factor(optical_props.ncol, optical_props.nlay,
                                       optical_props.ngpt, top_at_1, inc_flux, mu0, gpt_flux_dir)
    /\ pc' = "bc_dn"
    /\ trace' = Append(trace, "apply_BC_factor")
    /\ UNCHANGED <<args, gpt_flux_up, gpt_flux_dn, sfc_alb_dir_gpt, sfc_alb_dif_gpt,
                   loop, fluxes, engine, gas, log, drv>>

\* Line 84: apply_BC(ncol, nlay, ngpt, top_at_1, gpt_flux_dn).
ApplyBCDn ==
    /\ pc = "bc_dn"
    /\ gpt_flux_dn' = apply_BC_0(optical_props.ncol, optical_props.nlay,
                                 optical_props.ngpt, top_at_1, gpt_flux_dn)
    /\ pc' = "solve"
    /\ trace' = Append(trace, "apply_BC_0")
    /\ UNCHANGED <<args, gpt_flux_up, gpt_flux_dir, sfc_alb_dir_gpt, sfc_alb_dif_gpt,
                   loop, fluxes, engine, gas, log, drv>>

\* Lines 88-95: the two-stream solver, on the expanded albedos.
RteSwSolveRetried ==
    /\ pc = "solve"
    /\ LET r == sw_solver_2stream(optical_props, top_at_1, sfc_alb_dir_gpt, sfc_alb_dif_gpt,
                                  gpt_flux_dn, gpt_flux_dir)
       IN  /\ gpt_flux_up' = r.up
           /\ gpt_flux_dn' = r.dn
           /\ gpt_flux_dir' = r.dir
    /\ pc' = IF \E i \in 1..Len(trace) : trace[i] = "sw_solver_2stream"
             THEN "reduce" ELSE "solve"
    /\ trace' = Append(trace, "sw_solver_2stream")
    /\ UNCHANGED <<args, sfc_alb_dir_gpt, sfc_alb_dif_gpt, loop, fluxes, engine, gas, log, drv>>

RteSwSolve ==
    /\ pc = "solve"
    /\ LET r == sw_solver_2stream(optical_props, top_at_1, sfc_alb_dir_gpt, sfc_alb_dif_gpt,
                                  gpt_flux_dn, gpt_flux_dir)
       IN  /\ gpt_flux_up' = r.up
           /\ gpt_flux_dn' = r.dn
           /\ gpt_flux_dir' = r.dir
    /\ pc' = "reduce"
    /\ trace' = Append(trace, "sw_solver_2stream")
    /\ UNCHANGED <<args, sfc_alb_dir_gpt, sfc_alb_dif_gpt, loop, fluxes, engine, gas, log, drv>>

\* Line 97: fluxes->reduce(gpt_flux_up, gpt_flux_dn, gpt_flux_dir, optical_props, top_at_1).
ReduceArgsSwapped == <<gpt_flux_dn, gpt_flux_up, gpt_flux_dir>>
ReduceArgs == <<gpt_flux_up, gpt_flux_dn, gpt_flux_dir>>

RteSwReduce ==
    /\ pc = "reduce"
    /\ fluxes' = Reduce(ReduceArgs[1], ReduceArgs[2], ReduceArgs[3], optical_props,
                        byband, fluxes)
    /\ pc' = "done"
    /\ trace' = Append(trace, "reduce")
    /\ UNCHANGED <<args, locals, loop, engine, gas, log, drv>>

RteSwStep ==
    \/ RteSwAlloc
    \/ ExpandDirEnter
    \/ ExpandDirStep
    \/ ExpandDifEnter
    \/ ExpandDifStep
    \/ ApplyBCDir
    \/ ApplyBCDn
    \/ RteSwSolve
    \/ RteSwReduce

\* The caller before it enters rte_sw: no local exists, the flux fields are new.
NoArray == <<>>
IdleRte ==
    /\ pc = "idle"
    /\ gpt_flux_up = NoArray
    /\ gpt_flux_dn = NoArray
    /\ gpt_flux_dir = NoArray
    /\ sfc_alb_dir_gpt = NoArray
    /\ sfc_alb_dif_gpt = NoArray
    /\ loop = NoLoop
    /\ fluxes = NewFluxes(NCol, NLay + 1, NBand)
    /\ trace = <<>>

\* ------------------------------------------------------ Gas_optics_nn
\* press_ref_trop = 9948.431564193395 Pa; pressures are whole Pa here, for
\* which p > 9948.43... is p > 9948.
press_ref_trop == 9948

\* The value 1.0 of a single-scatter albedo, in the model's units.
SsaOne == 2

Min(a, b) == IF a <= b THEN a ELSE b

\* A pressure profile of one column that falls with the layer index and has
\* its first k layers on the lower (high pressure) side of press_ref_trop.
Profile(k) ==
    [l \in 1..NLay |-> IF l <= k THEN press_ref_trop + (NLay + 1 - l) ELSE press_ref_trop - l]

\* The layer index at which a column's pressure crosses press_ref_trop: the
\* number of its layers on the lower side.
TropoIndex(p) == Cardinality({ l \in DOMAIN p : p[l] > press_ref_trop })

\* The gases the trained feature set reads.
RequiredGases == {"h2o", "o3"}

\* set_solar_variability: the effective solar source, a linear combination of
\* the quiet, facular and sunspot vectors weighted by the two indices.
SolarSource(quiet, facular, sunspot, md_index, sb_index) ==
    [g \in 1..NGpt |-> quiet[g] + md_index * facular[g] + sb_index * sunspot[g]]

\* The object after its shortwave constructor: networks loaded, solar source
\* set from the default indices, the tropopause index and the two regime flags.
EngineSet ==
    { [built |-> TRUE,
       tsw_network |-> wt, ssa_network |-> ws,
       solar_source_quiet |-> [g \in 1..NGpt |-> 10 + g],
       solar_source_facular |-> [g \in 1..NGpt |-> g],
       solar_source_sunspot |-> [g \in 1..NGpt |-> 1],
       solar_source |-> SolarSource([g \in 1..NGpt |-> 10 + g], [g \in 1..NGpt |-> g],
                                    [g \in 1..NGpt |-> 1], 1, 1),
       idx_tropo |-> k, lower_atm |-> (k > 0), upper_atm |-> (k < NLay)] :
      wt \in 0..MaxSeed, ws \in 0..MaxSeed, k \in 0..NLay }

NoEngine == [built |-> FALSE]
NoGasCall == [status |-> "none"]
NoDriver == [dpc |-> "none"]

\* Arguments of the shortwave gas_optics: a pressure profile per column, layer
\* temperatures, the gases held by gas_desc.
GasArgs ==
    [play : { [c \in 1..NCol |-> Profile(k[c])] : k \in [1..NCol -> 0..NLay] },
     tlay : { [c \in 1..NCol |-> [l \in 1..NLay |-> t + c + l]] : t \in 0..MaxSeed },
     gas_desc : SUBSET {"h2o", "o3", "co2"}]

\* Network::infer is opaque: a deterministic function of the weights, the
\* regime and the features, whose output may leave the valid range on
\* either side.
Feature(a, c, l) == a.tlay[c][l] + (IF a.play[c][l] > press_ref_trop THEN 1 ELSE 0)
NetOut(nw, regime, feat, g) ==
    ((nw + 2 * feat + g + (IF regime = "upper" THEN 1 ELSE 0)) % (SsaOne + 3)) - 1

\* The regime a layer is routed to: compute_tau_ssa_nn is handed one
\* idx_tropo (const int) for all columns.
RegimeOf(idx, l) == IF l <= idx THEN "lower" ELSE "upper"

\* Saturation of the network outputs.
ClampTau(x) == Max(x, 0)
ClampSsaBelowOnly(x) == Max(x, 0)
ClampSsa(x) == Min(Max(x, 0), SsaOne)

\* compute_tau_ssa_nn: the ssa and tsw networks of each layer's regime.
compute_tau_ssa_nn(nw_ssa, nw_tsw, idx, a, lower, upper) ==
    LET regime == [c \in 1..NCol |-> [l \in 1..NLay |-> RegimeOf(idx, l)]]
        tau_raw == [c \in 1..NCol |-> [l \in 1..NLay |-> [g \in 1..NGpt |->
                      NetOut(nw_tsw, regime[c][l], Feature(a, c, l), g)]]]
        ssa_raw == [c \in 1..NCol |-> [l \in 1..NLay |-> [g \in 1..NGpt |->
                      NetOut(nw_ssa, regime[c][l], Feature(a, c, l), g)]]]
    IN  [regime |-> regime,
         evaluated |-> (IF lower THEN {"lower"} ELSE {}) \cup (IF upper THEN {"upper"} ELSE {}),
         tau_raw |-> tau_raw, ssa_raw |-> ssa_raw,
         tau |-> [c \in 1..NCol |-> [l \in 1..NLay |-> [g \in 1..NGpt |->
                    ClampTau(tau_raw[c][l][g])]]],
         ssa |-> [c \in 1..NCol |-> [l \in 1..NLay |-> [g \in 1..NGpt |->
                    ClampSsa(ssa_raw[c][l][g])]]]]

\* What a shortwave gas_optics call leaves: an error and nothing written when a
\* required gas is missing, else tau, ssa and toa_src.
GasResult(e, a) ==
    IF ~(RequiredGases \subseteq a.gas_desc)
    THEN [status |-> "error", args |-> a]
    ELSE [status |-> "ok", args |-> a,
          out |-> compute_tau_ssa_nn(e.ssa_network, e.tsw_network, e.idx_tropo, a,
                                     e.lower_atm, e.upper_atm),
          toa_src |-> [c \in 1..NCol |-> e.solar_source]]

\* gas_optics is a const member function: it leaves every data member alone.
GasOpticsStoresIndex(a) ==
    engine' = [engine EXCEPT !.idx_tropo = TropoIndex(a.play[1])]
GasOpticsConst(a) == engine' = engine

\* Shortwave gas_optics(play, plev, tlay, gas_desc, optical_props, toa_src, col_dry).
GasOptics(a) ==
    /\ engine.built
    /\ pc = "idle"
    /\ gas' = GasResult(engine, a)
    /\ GasOpticsConst(a)
    /\ UNCHANGED <<rte_vars, drv>>

\* One call on the object as constructed; calls that follow one another are
\* taken up under SpecCalls.
GasCall ==
    /\ gas = NoGasCall
    /\ \E a \in GasArgs : GasOptics(a) /\ UNCHANGED log

\* The flux solver's caller, at rest with some arguments at hand.
RteAtRest(a) ==
    /\ CallerHolds(a)
    /\ IdleRte

InitGas ==
    /\ RteAtRest(CHOOSE a \in RteArgs : TRUE)
    /\ engine \in EngineSet
    /\ gas = NoGasCall
    /\ log = <<>>
    /\ drv = NoDriver

NextGas == GasCall

SpecGas == InitGas /\ [][NextGas]_vars

\* ------------------------------------------------- repeated calls
MaxCalls == 3

\* A few arguments for each entry point, enough for calls to repeat.
GasArgsFew ==
    { a \in GasArgs :
        /\ \A c \in 1..NCol : TropoIndex(a.play[c]) = TropoIndex(a.play[1])
        /\ TropoIndex(a.play[1]) \in {0, NLay}
        /\ a.tlay[1][1] = 2
        /\ a.gas_desc = RequiredGases }
RteArgsFew ==
    { a \in RteArgs :
        /\ a.optical_props.tau[1][1][1] = 1
        /\ a.optical_props.ssa[1][1][1] = 1
        /\ \A b \in 1..(NBand - 1) : a.optical_props.band_lims_gpoint[b][2] = b
        /\ a.mu0[1] = 1
        /\ a.inc_flux[1][1] = 1
        /\ a.sfc_alb_dir[1][1] = 1
        /\ a.sfc_alb_dif[1][1] = 2
        /\ a.byband }

\* What a call hands back to its caller.
FluxesOut ==
    IF byband THEN fluxes
    ELSE [written |-> fluxes.written, flux_up |-> fluxes.flux_up, flux_dn |-> fluxes.flux_dn,
          flux_dn_dir |-> fluxes.flux_dn_dir, flux_net |-> fluxes.flux_net]
RteArgsNow ==
    [optical_props |-> optical_props, top_at_1 |-> top_at_1, mu0 |-> mu0,
     inc_flux |-> inc_flux, sfc_alb_dir |-> sfc_alb_dir, sfc_alb_dif |-> sfc_alb_dif,
     byband |-> byband]

\* rte_sw returns: its locals are gone, the caller keeps the flux fields and
\* prepares the arguments a of its next call.
RteSwReturn(a) ==
    /\ pc = "done"
    /\ pc' = "idle"
    /\ log' = Append(log, [kind |-> "rte_sw", args |-> RteArgsNow, out |-> FluxesOut])
    /\ optical_props' = a.optical_props
    /\ top_at_1' = a.top_at_1
    /\ mu0' = a.mu0
    /\ inc_flux' = a.inc_flux
    /\ sfc_alb_dir' = a.sfc_alb_dir
    /\ sfc_alb_dif' = a.sfc_alb_dif
    /\ byband' = a.byband
    /\ gpt_flux_up' = NoArray
    /\ gpt_flux_dn' = NoArray
    /\ gpt_flux_dir' = NoArray
    /\ sfc_alb_dir_gpt' = NoArray
    /\ sfc_alb_dif_gpt' = NoArray
    /\ UNCHANGED <<loop, fluxes, trace, engine, gas, drv>>

GasCallLogged ==
    /\ Len(log) < MaxCalls
    /\ \E a \in GasArgsFew :
          /\ GasOptics(a)
          /\ log' = Append(log, [kind |-> "gas_optics", args |-> a, out |-> gas'])

RteCallBegin ==
    /\ Len(log) < MaxCalls
    /\ RteSwBegin

RteCallReturn == \E a \in RteArgsFew : RteSwReturn(a)

InitCalls ==
    /\ \E a \in RteArgsFew : RteAtRest(a)
    /\ engine \in { e \in EngineSet :
                      e.tsw_network = 0 /\ e.ssa_network = 1 /\ e.idx_tropo = NLay }
    /\ gas = NoGasCall
    /\ log = <<>>
    /\ drv = NoDriver

NextCalls ==
    \/ GasCallLogged
    \/ RteCallBegin
    \/ RteSwStep
    \/ RteCallReturn

SpecCalls == InitCalls /\ [][NextCalls]_vars

\* ------------------------------------------------------------- driver
\* The gases solve_radiation reads, in its order (lines 115-122).
GasList == <<"h2o", "co2", "o3", "n2o", "co", "ch4", "o2", "n2">>

\* The input file: per gas, whether vmr_<gas> is absent, present with legal
\* dimensions, or present with illegal ones.
InputFiles == [{ GasList[i] : i \in 1..Len(GasList) } -> {"absent", "ok", "illegal"}]

DriverStart(f) ==
    [dpc |-> "read_vmr", file |-> f, next |-> 1, gas_concs |-> {}, thrown |-> "",
     lw_solves |-> 0, sw_solves |-> 0, output_file |-> FALSE, exit |-> -1]

DriverFrame == UNCHANGED <<rte_vars, engine, gas, log>>

\* read_and_set_vmr (lines 40-78) for the next gas of the list.
ReadAndSetVmr ==
    /\ drv.dpc = "read_vmr"
    /\ drv.next <= Len(GasList)
    /\ LET name == GasList[drv.next]
       IN  drv' = CASE drv.file[name] = "ok" ->
                        [drv EXCEPT !.gas_concs = @ \cup {name}, !.next = @ + 1]
                   [] drv.file[name] = "illegal" ->
                        [drv EXCEPT !.thrown = "illegal dimensions", !.dpc = "catch"]
                   [] OTHER -> [drv EXCEPT !.next = @ + 1]
    /\ DriverFrame

\* Lines 125-206: the solvers are constructed, the surface data read, the
\* output arrays created.
InitSolvers ==
    /\ drv.dpc = "read_vmr"
    /\ drv.next > Len(GasList)
    /\ drv' = [drv EXCEPT !.dpc = "solve_lw"]
    /\ DriverFrame

\* A solve runs gas_optics, which throws when a required gas is missing.
SolveOutcome(d, ok_pc) ==
    IF RequiredGases \subseteq d.gas_concs
    THEN [d EXCEPT !.dpc = ok_pc]
    ELSE [d EXCEPT !.thrown = "configuration", !.dpc = "catch"]

\* Lines 214-224: rad_lw.solve.
SolveLw ==
    /\ drv.dpc = "solve_lw"
    /\ drv' = SolveOutcome([drv EXCEPT !.lw_solves = @ + 1], "solve_sw")
    /\ DriverFrame

\* Lines 236-250: rad_sw.solve.
SolveSw ==
    /\ drv.dpc = "solve_sw"
    /\ drv' = SolveOutcome([drv EXCEPT !.sw_solves = @ + 1], "save")
    /\ DriverFrame

\* Lines 257-363: the output file is created and filled.
SaveOutput ==
    /\ drv.dpc = "save"
    /\ drv' = [drv EXCEPT !.output_file = TRUE, !.dpc = "return"]
    /\ DriverFrame

\* Line 387: main returns 0.
MainReturn ==
    /\ drv.dpc = "return"
    /\ drv' = [drv EXCEPT !.exit = 0, !.dpc = "exited"]
    /\ DriverFrame

\* Lines 374-384: main catches the exception and returns 1.
MainCatchReturnsZero ==
    /\ drv.dpc = "catch"
    /\ drv' = [drv EXCEPT !.exit = 0, !.dpc = "exited"]
    /\ DriverFrame
MainCatch ==
    /\ drv.dpc = "catch"
    /\ drv' = [drv EXCEPT !.exit = 1, !.dpc = "exited"]
    /\ DriverFrame

InitDriver ==
    /\ RteAtRest(CHOOSE a \in RteArgs : TRUE)
    /\ engine = NoEngine
    /\ gas = NoGasCall
    /\ log = <<>>
    /\ \E f \in InputFiles : drv = DriverStart(f)

NextDriver ==
    \/ ReadAndSetVmr
    \/ InitSolvers
    \/ SolveLw
    \/ SolveSw
    \/ SaveOutput
    \/ MainReturn
    \/ MainCatch

SpecDriver == InitDriver /\ [][NextDriver]_vars

\* --------------------------------------------------- concurrent calls
\* Two threads call the shortwave gas_optics of one object. Here gas holds a
\* frame per thread and the output buffers the callers own.
Threads == {1, 2}

NoColumn == <<>>
EmptyBuf ==
    [tau |-> [c \in 1..NCol |-> NoColumn], ssa |-> [c \in 1..NCol |-> NoColumn],
     toa_src |-> NoColumn]

\* The buffer thread t hands in as optical_props / toa_src: its own.
OutBufAliased(t) == 1
OutBuf(t) == t

\* Arguments of the concurrent calls: profiles wholly on one side of
\* press_ref_trop or the other, every temperature seed, all gases supplied.
GasArgsConc ==
    { a \in GasArgs :
        /\ \A c \in 1..NCol : TropoIndex(a.play[c]) = TropoIndex(a.play[1])
        /\ TropoIndex(a.play[1]) \in {0, NLay}
        /\ a.gas_desc = RequiredGases }

\* gas_optics entered by thread t: compute_tau_ssa_nn is handed the members
\* idx_tropo, lower_atm and upper_atm by value.
ConcEnter(t) ==
    /\ engine.built
    /\ pc = "idle"
    /\ gas.call[t].status = "none"
    /\ \E a \in GasArgsConc :
          /\ gas' = [gas EXCEPT
                       !.call[t] = [status |-> "running", args |-> a,
                                    idx |-> engine.idx_tropo,
                                    lower |-> engine.lower_atm,
                                    upper |-> engine.upper_atm,
                                    next |-> 1]]
          /\ GasOpticsConst(a)
    /\ UNCHANGED <<rte_vars, log, drv>>

\* One column of tau and ssa written by thread t, from the networks.
ConcColumn(t) ==
    LET f == gas.call[t]
        out == compute_tau_ssa_nn(engine.ssa_network, engine.tsw_network, f.idx,
                                  f.args, f.lower, f.upper)
    IN  /\ f.status = "running"
        /\ f.next <= NCol
        /\ gas' = [gas EXCEPT
                     !.call[t].next = f.next + 1,
                     !.buf[OutBuf(t)].tau[f.next] = out.tau[f.next],
                     !.buf[OutBuf(t)].ssa[f.next] = out.ssa[f.next]]
        /\ GasOpticsConst(f.args)
        /\ UNCHANGED <<rte_vars, log, drv>>

\* toa_src written from the stored solar source; the call returns.
ConcSource(t) ==
    LET f == gas.call[t]
    IN  /\ f.status = "running"
        /\ f.next = NCol + 1
        /\ gas' = [gas EXCEPT
                     !.call[t].status = "ok",
                     !.buf[OutBuf(t)].toa_src = [c \in 1..NCol |-> engine.solar_source]]
        /\ GasOpticsConst(f.args)
        /\ UNCHANGED <<rte_vars, log, drv>>

InitConc ==
    /\ RteAtRest(CHOOSE a \in RteArgs : TRUE)
    /\ engine \in EngineSet
    /\ gas = [call |-> [t \in Threads |-> NoGasCall], buf |-> [t \in Threads |-> EmptyBuf]]
    /\ log = <<>>
    /\ drv = NoDriver

NextConc ==
    \E t \in Threads :
        \/ ConcEnter(t)
        \/ ConcColumn(t)
        \/ ConcSource(t)

SpecConc == InitConc /\ [][NextConc]_vars

\* ---------------------------------------------------- solar variability
MaxIndex == 2

\* mg_default and sb_default of the shortwave constructor, as EngineSet has
\* them.
DefaultIndices == <<1, 1>>

\* set_solar_variability(md_index, sb_index) on the object e: the effective
\* solar source is set from the three stored vectors and the two indices.
set_solar_variability_accumulates(e, md_index, sb_index) ==
    [e EXCEPT !.solar_source =
        [g \in 1..NGpt |-> e.solar_source[g] + md_index * e.solar_source_facular[g]
                                             + sb_index * e.solar_source_sunspot[g]]]
set_solar_variability(e, md_index, sb_index) ==
    [e EXCEPT !.solar_source =
        SolarSource(e.solar_source_quiet, e.solar_source_facular, e.solar_source_sunspot,
                    md_index, sb_index)]

SetSolarVariability ==
    /\ engine.built
    /\ pc = "idle"
    /\ Len(log) < 1 + MaxCalls
    /\ \E md_index \in 0..MaxIndex, sb_index \in 0..MaxIndex :
          /\ engine' = set_solar_variability(engine, md_index, sb_index)
          /\ log' = Append(log, [kind |-> "set_solar_variability",
                                 indices |-> <<md_index, sb_index>>,
                                 out |-> engine'.solar_source])
    /\ UNCHANGED <<rte_vars, gas, drv>>

\* The log opens with the source the constructor left.
InitSolar ==
    /\ RteAtRest(CHOOSE a \in RteArgs : TRUE)
    /\ engine \in { e \in EngineSet :
                      e.tsw_network = 0 /\ e.ssa_network = 0 /\ e.idx_tropo = NLay }
    /\ gas = NoGasCall
    /\ log = << [kind |-> "construct", indices |-> DefaultIndices,
                 out |-> engine.solar_source] >>
    /\ drv = NoDriver

NextSolar == SetSolarVariability

SpecSolar == InitSolar /\ [][NextSolar]_vars

\* ------------------------------------------------------- specification
Init ==
    /\ \E a \in RteArgs : CallerHolds(a)
    /\ IdleRte
    /\ engine = NoEngine
    /\ gas = NoGasCall
    /\ log = <<>>
    /\ drv = NoDriver

Next ==
    \/ RteSwBegin
    \/ RteSwStep

Spec == Init /\ [][Next]_vars

\* rte_sw called with boundary fields whose extents need not be the
\* container's: albedos of ncol-1 columns, mu0 of ncol+1 elements.  No index
\* leaves its array with these extents.
RteArgsAnyDims ==
    [optical_props : OpticalPropsSet, top_at_1 : {0, 1},
     mu0 : Mu0Set(NCol) \cup Mu0Set(NCol + 1),
     inc_flux : IncFluxSet(NCol, NGpt),
     sfc_alb_dir : AlbDirSet(NBand, NCol - 1) \cup AlbDirSet(NBand, NCol),
     sfc_alb_dif : AlbDifSet(NBand, NCol - 1) \cup AlbDifSet(NBand, NCol),
     byband : BOOLEAN]

InitDims ==
    /\ \E a \in RteArgsAnyDims : CallerHolds(a)
    /\ IdleRte
    /\ engine = NoEngine
    /\ gas = NoGasCall
    /\ log = <<>>
    /\ drv = NoDriver

SpecDims == InitDims /\ [][Next]_vars

\* ---------------------------------------------------------------- claims
PcAfterExpandDir ==
    pc \in {"call_expand_dif", "in_expand_dif", "bc_dir", "bc_dn", "solve", "reduce", "done"}
PcAfterExpandDif == pc \in {"bc_dir", "bc_dn", "solve", "reduce", "done"}

\* arr_out(c, g) = arr_in(b, c) for every band b, column c and point g of b.
IsBroadcast(arr_out, arr_in, ops) ==
    \A b \in 1..ops.nband, c \in 1..ops.ncol :
        \A g \in ops.band_lims_gpoint[b][1]..ops.band_lims_gpoint[b][2] :
            arr_out[c][g] = arr_in[b][c]

\* A step changes an element of arr_out only to the value of the element's band.
WritesOwnBand(arr_out, arr_out_next, arr_in, ops) ==
    \A c \in 1..ops.ncol, g \in 1..ops.ngpt :
        arr_out_next[c][g] # arr_out[c][g] =>
            arr_out_next[c][g] = arr_in[BandOf(ops.band_lims_gpoint, ops.nband, g)][c]

ExpandWritesOwnBand ==
    /\ pc = "in_expand_dir" =>
          WritesOwnBand(sfc_alb_dir_gpt, sfc_alb_dir_gpt', sfc_alb_dir, optical_props)
    /\ pc = "in_expand_dif" =>
          WritesOwnBand(sfc_alb_dif_gpt, sfc_alb_dif_gpt', sfc_alb_dif, optical_props)

\* C1: expand_and_transpose is a pure broadcast.  Once a call of it has
\* returned, every spectral point of band b holds arr_in(b, c) in column c, for
\* both albedos; and while it runs, no step stores into a point anything but
\* the value of that point's band.
C1_ExpandIsBroadcast ==
    /\ [](/\ PcAfterExpandDir => IsBroadcast(sfc_alb_dir_gpt, sfc_alb_dir, optical_props)
          /\ PcAfterExpandDif => IsBroadcast(sfc_alb_dif_gpt, sfc_alb_dif, optical_props))
    /\ [][ExpandWritesOwnBand]_vars

\* Both expansions done, a band of several points, and band values that differ
\* between bands and between columns.
C1_Witness ==
    /\ PcAfterExpandDif
    /\ \E b \in 1..optical_props.nband :
          optical_props.band_lims_gpoint[b][2] > optical_props.band_lims_gpoint[b][1]
    /\ sfc_alb_dir[1][1] # sfc_alb_dir[2][1]
    /\ sfc_alb_dir[1][1] # sfc_alb_dir[1][2]
    /\ sfc_alb_dir_gpt[2][optical_props.ngpt] = sfc_alb_dir[optical_props.nband][2]

\* C2: when the two-stream kernel is about to be invoked, the direct flux at
\* the top level is inc_flux(c, g) * mu0(c), the diffuse downward flux at the
\* top level is zero, and every other level of the three flux arrays is zero;
\* the top level is 1 when top_at_1 is set and nlay+1 otherwise.
C2_BoundaryAtKernelEntry ==
    pc = "solve" =>
        LET top == IF top_at_1 = 1 THEN 1 ELSE optical_props.nlay + 1
        IN  \A c \in 1..optical_props.ncol, g \in 1..optical_props.ngpt :
              /\ gpt_flux_dir[c][top][g] = inc_flux[c][g] * mu0[c]
              /\ gpt_flux_dn[c][top][g] = 0
              /\ \A l \in (1..(optical_props.nlay + 1)) \ {top} :
                    /\ gpt_flux_up[c][l][g] = 0
                    /\ gpt_flux_dn[c][l][g] = 0
                    /\ gpt_flux_dir[c][l][g] = 0

\* The kernel is about to run on a nonzero incident beam, with the top at nlay+1.
C2_Witness ==
    /\ pc = "solve"
    /\ top_at_1 = 0
    /\ \E c \in 1..optical_props.ncol, g \in 1..optical_props.ngpt :
          /\ inc_flux[c][g] * mu0[c] > 0
          /\ gpt_flux_dir[c][optical_props.nlay + 1][g] > 0
          /\ gpt_flux_dir[c][1][g] = 0

\* C3: after a completed rte_sw call the net flux is up minus down at every
\* column and level, down holding the direct beam as well; the same per band
\* when the flux fields are per-band.
C3_NetIsUpMinusDown ==
    pc = "done" =>
        \A c \in 1..optical_props.ncol, l \in 1..(optical_props.nlay + 1) :
            /\ fluxes.flux_up[c][l] = SumDesc(gpt_flux_up[c][l], 1, optical_props.ngpt)
            /\ fluxes.flux_dn[c][l] = SumDesc(gpt_flux_dn[c][l], 1, optical_props.ngpt)
            /\ fluxes.flux_dn_dir[c][l] = SumDesc(gpt_flux_dir[c][l], 1, optical_props.ngpt)
            /\ fluxes.flux_net[c][l] = fluxes.flux_up[c][l] - fluxes.flux_dn[c][l]
            /\ \A g \in 1..optical_props.ngpt : gpt_flux_dn[c][l][g] >= gpt_flux_dir[c][l][g]
            /\ byband =>
                 \A b \in 1..optical_props.nband :
                    LET lo == optical_props.band_lims_gpoint[b][1]
                        hi == optical_props.band_lims_gpoint[b][2]
                    IN  fluxes.bnd_flux_net[c][l][b] =
                          SumDesc(gpt_flux_up[c][l], lo, hi) - SumDesc(gpt_flux_dn[c][l], lo, hi)

\* A completed per-band call with a nonzero net flux and a direct beam in down.
C3_Witness ==
    /\ pc = "done"
    /\ byband
    /\ \E c \in 1..optical_props.ncol, l \in 1..(optical_props.nlay + 1) :
          /\ fluxes.flux_net[c][l] # 0
          /\ fluxes.flux_up[c][l] # fluxes.flux_dn[c][l]
          /\ fluxes.flux_up[c][l] > 0
          /\ fluxes.flux_dn_dir[c][l] > 0

\* C4: the reduction is additive and order-independent.  For every column and
\* level the per-band fluxes, added over the bands in either order, give the
\* broadband flux, each per-band flux being the sum of its band's points in
\* either order.
C4_BandsAddToBroadband ==
    (pc = "done" /\ byband) =>
        \A c \in 1..optical_props.ncol, l \in 1..(optical_props.nlay + 1) :
            LET nb == optical_props.nband
                lims == optical_props.band_lims_gpoint
            IN  /\ SumDesc(fluxes.bnd_flux_up[c][l], 1, nb) = fluxes.flux_up[c][l]
                /\ SumAsc(fluxes.bnd_flux_up[c][l], 1, nb) = fluxes.flux_up[c][l]
                /\ SumDesc(fluxes.bnd_flux_dn[c][l], 1, nb) = fluxes.flux_dn[c][l]
                /\ SumDesc(fluxes.bnd_flux_dn_dir[c][l], 1, nb) = fluxes.flux_dn_dir[c][l]
                /\ SumDesc(fluxes.bnd_flux_net[c][l], 1, nb) = fluxes.flux_net[c][l]
                /\ \A b \in 1..nb :
                      fluxes.bnd_flux_up[c][l][b] =
                          SumDesc(gpt_flux_up[c][l], lims[b][1], lims[b][2])

\* A completed per-band call in which two bands carry flux.
C4_Witness ==
    /\ pc = "done"
    /\ byband
    /\ \E c \in 1..optical_props.ncol, l \in 1..(optical_props.nlay + 1) :
          /\ fluxes.bnd_flux_up[c][l][1] > 0
          /\ fluxes.bnd_flux_up[c][l][2] > 0
          /\ fluxes.flux_up[c][l] > fluxes.bnd_flux_up[c][l][1]

BandPoints(lims, b) == lims[b][2] - lims[b][1] + 1

\* C5 as claimed: reducing the expanded albedo back to bands gives the
\* original per-band value.
C5_RoundTripExact ==
    PcAfterExpandDif =>
        \A b \in 1..optical_props.nband, c \in 1..optical_props.ncol :
            /\ SumByband(sfc_alb_dir_gpt[c], optical_props.band_lims_gpoint, b)
                  = sfc_alb_dir[b][c]
            /\ SumByband(sfc_alb_dif_gpt[c], optical_props.band_lims_gpoint, b)
                  = sfc_alb_dif[b][c]

\* C5 amended: reducing the expanded albedo back to bands gives the original
\* per-band value times the number of spectral points of the band.
C5_RoundTripScaled ==
    PcAfterExpandDif =>
        \A b \in 1..optical_props.nband, c \in 1..optical_props.ncol :
            /\ SumByband(sfc_alb_dir_gpt[c], optical_props.band_lims_gpoint, b)
                  = BandPoints(optical_props.band_lims_gpoint, b) * sfc_alb_dir[b][c]
            /\ SumByband(sfc_alb_dif_gpt[c], optical_props.band_lims_gpoint, b)
                  = BandPoints(optical_props.band_lims_gpoint, b) * sfc_alb_dif[b][c]

\* Both albedos expanded, a band of several points with a nonzero albedo.
C5_Witness ==
    /\ PcAfterExpandDif
    /\ \E b \in 1..optical_props.nband, c \in 1..optical_props.ncol :
          /\ BandPoints(optical_props.band_lims_gpoint, b) >= 2
          /\ sfc_alb_dir[b][c] > 0
          /\ SumByband(sfc_alb_dir_gpt[c], optical_props.band_lims_gpoint, b)
                > sfc_alb_dir[b][c]

\* A boundary field whose extents are not those of the container.
DimsMismatch ==
    \/ Dim1(mu0) # optical_props.ncol
    \/ Dim1(inc_flux) # optical_props.ncol
    \/ Dim2(inc_flux) # optical_props.ngpt
    \/ Dim1(sfc_alb_dir) # optical_props.nband
    \/ Dim2(sfc_alb_dir) # optical_props.ncol
    \/ Dim1(sfc_alb_dif) # optical_props.nband
    \/ Dim2(sfc_alb_dif) # optical_props.ncol

\* C6: with a boundary field whose extents disagree with the container,
\* rte_sw never gets as far as invoking the two-stream kernel and never writes
\* the caller's flux fields.
C6_MismatchIsFatal ==
    DimsMismatch =>
        /\ \A i \in 1..Len(trace) : trace[i] # "sw_solver_2stream"
        /\ ~fluxes.written

\* C7: after a completed shortwave gas_optics call every single-scatter
\* albedo lies in [0, 1] and every optical depth is >= 0, whatever the
\* networks put out: an output outside the range is moved to the nearest
\* bound, one inside is kept, and the call does not fail because of it.
C7_TauSsaInRange ==
    /\ gas.status = "ok" =>
          \A c \in 1..NCol, l \in 1..NLay, g \in 1..NGpt :
              LET t == gas.out.tau[c][l][g]
                  tr == gas.out.tau_raw[c][l][g]
                  a == gas.out.ssa[c][l][g]
                  ar == gas.out.ssa_raw[c][l][g]
              IN  /\ t >= 0
                  /\ 0 <= a /\ a <= SsaOne
                  /\ t = (IF tr < 0 THEN 0 ELSE tr)
                  /\ a = (IF ar < 0 THEN 0 ELSE IF ar > SsaOne THEN SsaOne ELSE ar)
    /\ gas.status = "error" => ~(RequiredGases \subseteq gas.args.gas_desc)

\* A completed call whose networks put out an albedo above 1.0, an albedo
\* below 0 and a negative optical depth.
C7_Witness ==
    /\ gas.status = "ok"
    /\ \E c \in 1..NCol, l \in 1..NLay, g \in 1..NGpt : gas.out.ssa_raw[c][l][g] > SsaOne
    /\ \E c \in 1..NCol, l \in 1..NLay, g \in 1..NGpt : gas.out.ssa_raw[c][l][g] < 0
    /\ \E c \in 1..NCol, l \in 1..NLay, g \in 1..NGpt : gas.out.tau_raw[c][l][g] < 0

\* C8: a completed gas_optics call has routed every layer of every column by
\* that column's own crossing of press_ref_trop, and has evaluated exactly the
\* regimes its columns need.
C8_RoutedByOwnColumn ==
    gas.status = "ok" =>
        /\ \A c \in 1..NCol, l \in 1..NLay :
              gas.out.regime[c][l] =
                 (IF l <= TropoIndex(gas.args.play[c]) THEN "lower" ELSE "upper")
        /\ gas.out.evaluated =
              { gas.out.regime[c][l] : c \in 1..NCol, l \in 1..NLay }

\* C9: a gas of the trained feature set missing from the gas concentration
\* store makes the solve fail with a configuration error that reaches main:
\* the process exits with status 1, no output file exists, no solve is run a
\* second time and none is run after the failed one.
C9_MissingGasIsFatal ==
    LET missing == ~(RequiredGases \subseteq drv.gas_concs)
    IN  /\ drv.output_file => ~missing
        /\ drv.dpc \in {"solve_sw", "save", "return"} => ~missing
        /\ drv.lw_solves <= 1 /\ drv.sw_solves <= 1
        /\ (drv.dpc = "exited" /\ missing) =>
              /\ drv.exit = 1
              /\ ~drv.output_file
              /\ drv.thrown # ""
              /\ drv.thrown = "configuration" => (drv.lw_solves = 1 /\ drv.sw_solves = 0)

\* The process has ended on a configuration error, with some gases read and a
\* required one missing.
C9_Witness ==
    /\ drv.dpc = "exited"
    /\ drv.thrown = "configuration"
    /\ drv.exit = 1
    /\ "h2o" \in drv.gas_concs
    /\ "o3" \notin drv.gas_concs
    /\ ~drv.output_file

\* In the log, calls of the same entry point with the same arguments have
\* the same outputs.
LogFunctional ==
    \A i \in 1..Len(log), j \in 1..Len(log) :
        (log[i].kind = log[j].kind /\ log[i].args = log[j].args) => log[i].out = log[j].out

\* C10: gas_optics and rte_sw are functions of their arguments and of the
\* state fixed at construction: whatever calls came before, calls with equal
\* arguments have equal outputs, and no step of any call changes the
\* engine's networks, solar-source vectors or other members.
C10_CallsArePure ==
    /\ []LogFunctional
    /\ [][engine' = engine]_vars

\* An rte_sw call, then a completed gas_optics call, then the first rte_sw
\* call again, with the same outputs.
C10_Witness ==
    /\ Len(log) = 3
    /\ log[1].kind = "rte_sw"
    /\ log[2].kind = "gas_optics"
    /\ log[2].out.status = "ok"
    /\ log[3].kind = "rte_sw"
    /\ log[1].args = log[3].args
    /\ log[1].out = log[3].out
    /\ log[1].out.written

\* What the call of thread t yields when it runs alone on the object.
Alone(t) == GasResult(engine, gas.call[t].args)

\* The columns thread t has written so far, and toa_src once it has
\* returned, are those of the call run alone.
YieldsAsAlone(t) ==
    LET f == gas.call[t]
        b == gas.buf[OutBuf(t)]
    IN  f.status \in {"running", "ok"} =>
          /\ \A c \in 1..(f.next - 1) :
                /\ b.tau[c] = Alone(t).out.tau[c]
                /\ b.ssa[c] = Alone(t).out.ssa[c]
          /\ f.status = "ok" => b.toa_src = Alone(t).toa_src

C12_SolarVariabilityIdempotent ==
    /\ [](\A i \in 2..Len(log), j \in 2..Len(log) :
            log[i].indices = log[j].indices => log[i].out = log[j].out)
    /\ [](\A i \in 2..Len(log) :
            log[i].indices = DefaultIndices => log[i].out = log[1].out)
    /\ [](engine.solar_source = log[Len(log)].out)
    /\ [][/\ engine'.solar_source_quiet = engine.solar_source_quiet
          /\ engine'.solar_source_facular = engine.solar_source_facular
          /\ engine'.solar_source_sunspot = engine.solar_source_sunspot]_vars

\* A call that moves the source away from the constructor's, then two calls
\* with the default indices, each leaving the constructor's source.
C12_Witness ==
    /\ Len(log) = 4
    /\ log[2].indices # DefaultIndices
    /\ log[2].out # log[1].out
    /\ log[3].indices = DefaultIndices
    /\ log[4].indices = DefaultIndices
    /\ log[3].out = log[1].out
    /\ log[4].out = log[3].out
    /\ engine.solar_source = log[1].out

\* The calls rte_sw makes, in the order of its body.
StepOrder ==
    <<"expand_dir", "expand_dif", "apply_BC_factor", "apply_BC_0", "sw_solver_2stream", "reduce">>

\* C13: on every call rte_sw makes its calls in one fixed order, each once:
\* the direct and the diffuse albedo are expanded, then the top boundary is
\* set on the direct and on the diffuse downward flux, then the two-stream
\* kernel runs once on the expanded albedos, and only then are the fluxes
\* reduced into the caller's fields, once.
C13_FixedOrder ==
    /\ [](/\ Len(trace) <= Len(StepOrder)
          /\ \A i \in 1..Len(trace) : trace[i] = StepOrder[i])
    /\ [](pc = "done" => trace = StepOrder)
    /\ [](Len(trace) >= 3 =>
            /\ IsBroadcast(sfc_alb_dir_gpt, sfc_alb_dir, optical_props)
            /\ IsBroadcast(sfc_alb_dif_gpt, sfc_alb_dif, optical_props))
    /\ [](fluxes.written <=> trace = StepOrder)
    /\ [][fluxes' # fluxes => (trace = SubSeq(StepOrder, 1, 5) /\ trace' = StepOrder)]_vars

\* rte_sw has returned, by-band output asked for, with every call made.
C13_Witness ==
    /\ pc = "done"
    /\ trace = StepOrder
    /\ fluxes.written
    /\ byband
    /\ IsBroadcast(sfc_alb_dif_gpt, sfc_alb_dif, optical_props)

====
